---- MODULE Spec2Model ----
(***************************************************************************)
(* Electric lock (MSP430): a 4-digit guess is entered with a potentiometer *)
(* (ADC12, high nibble of the sample) and a confirm button, validated      *)
(* against a fixed password, and answered with an LED and an LCD message   *)
(* for three Timer_A CCR0 interrupts.                                      *)
(*                                                                         *)
(* The main loop of main() is modelled one source statement per step (pc); *)
(* every interrupt service routine is one atomic action, because GIE is    *)
(* cleared by hardware while an ISR runs and no ISR re-enables it, so ISRs *)
(* do not nest and the main loop does not run inside one.                  *)
(***************************************************************************)
EXTENDS Integers, Sequences, FiniteSets, TLC

(*************************** program constants *****************************)
ASCII_CONV == 48
ONE_SECOND == 32767
HALF_HZ_CCR0 == 8191
CLEAR_SCREEN == 1
DDRAM == 128

\* volatile uint8_t password[4] = {1,2,3,4}, indexed 0..3 as in the source
password == [k \in 0..3 |-> k + 1]

(******************************* bounds *************************************)
\* number of distinct raw ADC readings the potentiometer can deliver
NumSamples == 4

\* saturation of the probe that counts Timer_A_CCR0_ISR runs of one window
MaxTicks == 4

\* raw 12-bit conversion results; the high nibbles are 1, 2, 3, 4, 13, 9, 10
SampleTable == <<420, 767, 768, 1189, 3333, 2559, 2560>>
Samples == {SampleTable[k] : k \in 1..NumSamples}

\* number of readings of a potentiometer kept near the top of its range
NumHighSamples == 3

\* raw results whose high nibbles are 13, 9, 1, 15, 10
HighSampleTable == <<3333, 2559, 420, 4095, 2560>>
HighSamples == {HighSampleTable[k] : k \in 1..NumHighSamples}

\* number of readings of the potentiometer in the runs checked under fairness
NumLiveSamples == 4

\* raw results whose high nibbles are 1, 2, 3, 4, 1, 2: readings past the 4th
\* fall into the band of a digit already present
LiveSampleTable == <<420, 767, 768, 1189, 300, 600>>
LiveSamples == {LiveSampleTable[k] : k \in 1..NumLiveSamples}

(******************************* state **************************************)
VARIABLES
    pressed,             \* volatile int8_t pressed
    conversion_allowed,  \* volatile uint8_t conversion_allowed
    data_cnt,            \* volatile uint8_t data_cnt
    guess,               \* volatile uint8_t guess[4]
    correct,             \* volatile uint8_t correct
    seconds,             \* volatile uint8_t seconds
    pc,                  \* position of the main loop
    i,                   \* check_password: int i
    sw,                  \* turn_on_led: value switch(correct) branched on
    r_dat,               \* main: register holding (ADC12MEM0 >> 8) & 0x0F before the store
    ADC12MEM0,           \* conversion result register
    ADC12ENC,            \* ADC12CTL0 & ADC12ENC
    ADC12IE0,            \* ADC12IE & ADC12IE0
    TA0CCR0,             \* timer compare register
    TA0MC,               \* TA0CTL mode control: "up" or "stop"
    CCIE,                \* TA0CCTL0 & CCIE
    LED,                 \* LED_PORT bits 3 (right answer) and 4 (wrong answer)
    lcd,                 \* display: address counter and last character written
    oob_write,           \* a store guess[k] with k outside 0..3 has happened
    accepted,            \* probe: this iteration took the conversion_allowed branch
    latched,             \* probe: button edges since pressed was last cleared: "none", "one", "several"
    edge_gate,           \* probe: the gate at the edge that set pressed: "none", "open", "closed"
    taken,               \* probe: value of latched when this iteration found pressed==1
    cmp_count,           \* probe: comparisons done by the running check_password
    ticks,               \* probe: Timer_A_CCR0_ISR runs since CCIE was enabled
    restarted            \* probe: a feedback window has ended before

vars == <<pressed, conversion_allowed, data_cnt, guess, correct, seconds, pc, i, sw, r_dat,
          ADC12MEM0, ADC12ENC, ADC12IE0, TA0CCR0, TA0MC, CCIE, LED, lcd,
          oob_write, accepted, latched, edge_gate, taken, cmp_count, ticks, restarted>>

globals == <<pressed, conversion_allowed, data_cnt, guess, correct, seconds>>
adcregs == <<ADC12MEM0, ADC12ENC, ADC12IE0>>
timerregs == <<TA0CCR0, TA0MC, CCIE>>
probes == <<oob_write, accepted, latched, edge_gate, taken, cmp_count, ticks, restarted>>

(************************* display driver (lcd.c) **************************)
\* The display is kept as what the driver's byte stream leaves in it that the
\* program can tell apart: the DDRAM address counter and the last character
\* code written.  Character codes are ASCII.
TXT_WRONG == <<87, 82, 79, 78, 71>>
TXT_PASSWORD == <<80, 65, 83, 83, 87, 79, 82, 68>>
TXT_UNLOCKED == <<85, 78, 76, 79, 67, 75, 69, 68>>
TXT_ENTER_PW == <<69, 110, 116, 101, 114, 32, 80, 87>>

\* lcd_command(cmd): 0x01 clears the display and homes the address counter,
\* 0x80+a sets the DDRAM address; the other codes used (mode, cursor, entry
\* mode) move nothing
lcd_command(l, cmd) ==
    IF cmd % 256 = CLEAR_SCREEN
    THEN [cursor |-> 0, last |-> 0]
    ELSE IF cmd % 256 >= DDRAM
         THEN [l EXCEPT !.cursor = (cmd % 256) - DDRAM]
         ELSE l

\* lcd_display(dat): codes 0x3A..0x40 are limited to '9'; the character goes to
\* the address counter's cell and the counter auto-increments (entry mode SHIFTR)
lcd_display(l, dat) ==
    LET d == IF dat > 57 /\ dat < 65 THEN 57 ELSE dat
    IN  [cursor |-> (l.cursor + 1) % 128, last |-> d]

RECURSIVE lcd_put(_, _)
lcd_put(l, text) ==
    IF text = << >> THEN l ELSE lcd_put(lcd_display(l, Head(text)), Tail(text))

\* lcd_text(text, pos)
lcd_text(l, text, pos) == lcd_put(lcd_command(l, pos), text)

\* lcd_begin()
lcd_begin(l) ==
    LET l1 == lcd_command(l, DDRAM)
        l2 == lcd_put(l1, <<ASCII_CONV, ASCII_CONV, ASCII_CONV, ASCII_CONV>>)
        l3 == lcd_text(l2, TXT_ENTER_PW, 193)
    IN  lcd_command(l3, DDRAM)

\* lcd_initialization(): after the reset and mode commands, clear and lcd_begin
lcd_initialization == lcd_begin(lcd_command([cursor |-> 0, last |-> 0], CLEAR_SCREEN))

(****************************** helpers *************************************)
\* (ADC12MEM0 >> 8) & 0x0F
HighNibble(raw) == (raw \div 256) % 16

(******************************* Init ***************************************)
\* the state at the first evaluation of while(1), after __enable_interrupt();
\* ADC12MEM0 holds whatever the potentiometer (readings S) delivered last
InitWith(S) ==
    /\ pressed = 0
    /\ conversion_allowed = 1
    /\ data_cnt = 0
    /\ guess = [k \in 0..3 |-> 0]
    /\ correct = 1
    /\ seconds = 0
    /\ pc = "L161"
    /\ i = 0
    /\ sw = 1
    /\ r_dat = 0
    /\ ADC12MEM0 \in S
    /\ ADC12ENC = TRUE
    /\ ADC12IE0 = TRUE
    /\ TA0CCR0 = HALF_HZ_CCR0
    /\ TA0MC = "up"
    /\ CCIE = FALSE
    /\ LED = [b3 |-> FALSE, b4 |-> FALSE]
    /\ lcd = lcd_initialization
    /\ oob_write = FALSE
    /\ accepted = FALSE
    /\ latched = "none"
    /\ edge_gate = "none"
    /\ taken = "none"
    /\ cmp_count = 0
    /\ ticks = 0
    /\ restarted = FALSE

locals == <<i, sw, r_dat>>
hw == <<ADC12MEM0, ADC12ENC, ADC12IE0, TA0CCR0, TA0MC, CCIE, LED, lcd>>

(************************* main loop (main.c 160-173) **********************)
\* L161: if(pressed==1)
main_if_pressed ==
    /\ pc = "L161"
    /\ pc' = IF pressed = 1 THEN "L162" ELSE "L161"
    /\ taken' = IF pressed = 1 THEN latched ELSE taken
    /\ UNCHANGED <<globals, locals, hw, oob_write, accepted, latched, edge_gate, cmp_count, ticks,
                   restarted>>

\* L162 with the test of conversion_allowed left out: every confirmation is stored
main_if_allowed_always ==
    /\ pc = "L162"
    /\ pc' = "L163"
    /\ accepted' = (conversion_allowed # 0)
    /\ UNCHANGED <<globals, locals, hw, oob_write, latched, edge_gate, taken, cmp_count, ticks, restarted>>

\* L162: if(conversion_allowed)
main_if_allowed ==
    /\ pc = "L162"
    /\ pc' = IF conversion_allowed # 0 THEN "L163" ELSE "L167"
    /\ accepted' = (conversion_allowed # 0)
    /\ UNCHANGED <<globals, locals, hw, oob_write, latched, edge_gate, taken, cmp_count, ticks, restarted>>

\* L163, right-hand side: (ADC12MEM0 >> 8) & 0x0F is read into a register
main_read_adc ==
    /\ pc = "L163"
    /\ r_dat' = HighNibble(ADC12MEM0)
    /\ pc' = "L163s"
    /\ UNCHANGED <<globals, i, sw, hw, probes>>

\* L163 with the counter advanced before the store: guess[data_cnt+1] = register
main_store_next_slot ==
    /\ pc = "L163s"
    /\ IF data_cnt + 1 \in 0..3
       THEN guess' = [guess EXCEPT ![data_cnt + 1] = r_dat] /\ UNCHANGED oob_write
       ELSE oob_write' = TRUE /\ UNCHANGED guess
    /\ r_dat' = 0
    /\ pc' = "L164"
    /\ UNCHANGED <<pressed, conversion_allowed, data_cnt, correct, seconds, i, sw, hw,
                   accepted, latched, edge_gate, taken, cmp_count, ticks, restarted>>

\* L163, the store: guess[data_cnt] = register
main_store ==
    /\ pc = "L163s"
    /\ IF data_cnt \in 0..3
       THEN guess' = [guess EXCEPT ![data_cnt] = r_dat] /\ UNCHANGED oob_write
       ELSE oob_write' = TRUE /\ UNCHANGED guess
    /\ r_dat' = 0
    /\ pc' = "L164"
    /\ UNCHANGED <<pressed, conversion_allowed, data_cnt, correct, seconds, i, sw, hw,
                   accepted, latched, edge_gate, taken, cmp_count, ticks, restarted>>

\* L164: data_cnt++
main_incr ==
    /\ pc = "L164"
    /\ data_cnt' = (data_cnt + 1) % 256
    /\ pc' = "L167"
    /\ UNCHANGED <<pressed, conversion_allowed, guess, correct, seconds, locals, hw,
                   oob_write, accepted, latched, edge_gate, taken, cmp_count, ticks, restarted>>

\* L167 with the bound off by one: if(data_cnt > 4)
main_if_full_late ==
    /\ pc = "L167"
    /\ pc' = IF data_cnt > 4 THEN "L168" ELSE "L171"
    /\ UNCHANGED <<globals, locals, hw, probes>>

\* L167: if(data_cnt > 3)
main_if_full ==
    /\ pc = "L167"
    /\ pc' = IF data_cnt > 3 THEN "L168" ELSE "L171"
    /\ UNCHANGED <<globals, locals, hw, probes>>

\* L168 left out: the gate stays open while the guess is checked
main_disable_skip ==
    /\ pc = "L168"
    /\ pc' = "L102"
    /\ UNCHANGED <<globals, locals, hw, probes>>

\* L168: conversion_allowed = 0
main_disable ==
    /\ pc = "L168"
    /\ conversion_allowed' = 0
    /\ pc' = "L102"
    /\ UNCHANGED <<pressed, data_cnt, guess, correct, seconds, locals, hw, probes>>

\* L171 left out: pressed keeps its value at the end of the iteration
main_clear_pressed_keep ==
    /\ pc = "L171"
    /\ accepted' = FALSE
    /\ latched' = "none"
    /\ edge_gate' = "none"
    /\ taken' = "none"
    /\ pc' = "L161"
    /\ UNCHANGED <<globals, locals, hw, oob_write, cmp_count, ticks, restarted>>

\* L171: pressed = 0
main_clear_pressed ==
    /\ pc = "L171"
    /\ pressed' = 0
    /\ accepted' = FALSE
    /\ latched' = "none"
    /\ edge_gate' = "none"
    /\ taken' = "none"
    /\ pc' = "L161"
    /\ UNCHANGED <<conversion_allowed, data_cnt, guess, correct, seconds, locals, hw,
                   oob_write, cmp_count, ticks, restarted>>

(********************** check_password (main.c 100-117) ********************)
\* L102-105: ADC12CTL0 &= ~ADC12ENC; ADC12IE &= ~ADC12IE0; TA0CCR0 = 0;
\* TA0CTL = MC__STOP.  The four register writes are one step: the only handler
\* that reads any of them is ADC12ISR through ADC12IE0, and its run between two
\* of the writes leaves the same state as its run before L102.
check_password_hw ==
    /\ pc = "L102"
    /\ ADC12ENC' = FALSE
    /\ ADC12IE0' = FALSE
    /\ TA0CCR0' = 0
    /\ TA0MC' = "stop"
    /\ pc' = "L108"
    /\ UNCHANGED <<globals, locals, ADC12MEM0, CCIE, LED, lcd, probes>>

\* L108 left out: data_cnt keeps its value through the validation
check_password_reset_keep ==
    /\ pc = "L108"
    /\ i' = 0
    /\ cmp_count' = 0
    /\ pc' = "L109"
    /\ UNCHANGED <<globals, sw, r_dat, hw, oob_write, accepted, latched, edge_gate, taken, ticks, restarted>>

\* L108 and the loop initialisation of L109: data_cnt = 0; i = 0
check_password_reset ==
    /\ pc = "L108"
    /\ data_cnt' = 0
    /\ i' = 0
    /\ cmp_count' = 0
    /\ pc' = "L109"
    /\ UNCHANGED <<pressed, conversion_allowed, guess, correct, seconds, sw, r_dat, hw,
                   oob_write, accepted, latched, edge_gate, taken, ticks, restarted>>

\* check_password's loop with the bound off by one: for(i=0;i<3;i++)
check_password_loop_short ==
    /\ pc = "L109"
    /\ IF i < 3
       THEN /\ cmp_count' = cmp_count + 1
            /\ IF guess[i] # password[i]
               THEN pc' = "L111" /\ UNCHANGED i
               ELSE pc' = "L109" /\ i' = i + 1
       ELSE /\ pc' = "L68"
            /\ UNCHANGED <<i, cmp_count>>
    /\ UNCHANGED <<globals, sw, r_dat, hw, oob_write, accepted, latched, edge_gate, taken, ticks, restarted>>

\* check_password's loop without the break: a mismatch clears correct and the
\* loop goes on to the next digit
check_password_loop_nobreak ==
    /\ pc = "L109"
    /\ IF i < 4
       THEN /\ cmp_count' = cmp_count + 1
            /\ correct' = IF guess[i] # password[i] THEN 0 ELSE correct
            /\ pc' = "L109"
            /\ i' = i + 1
       ELSE /\ pc' = "L68"
            /\ UNCHANGED <<i, cmp_count, correct>>
    /\ UNCHANGED <<pressed, conversion_allowed, data_cnt, guess, seconds, sw, r_dat, hw,
                   oob_write, accepted, latched, edge_gate, taken, ticks, restarted>>

\* L109-110, 112: one evaluation of i<4 and, inside the loop, of
\* guess[i]!=password[i]; a mismatch goes to L111, a match to i++
check_password_loop ==
    /\ pc = "L109"
    /\ IF i < 4
       THEN /\ cmp_count' = cmp_count + 1
            /\ IF guess[i] # password[i]
               THEN pc' = "L111" /\ UNCHANGED i
               ELSE pc' = "L109" /\ i' = i + 1
       ELSE /\ pc' = "L68"
            /\ UNCHANGED <<i, cmp_count>>
    /\ UNCHANGED <<globals, sw, r_dat, hw, oob_write, accepted, latched, edge_gate, taken, ticks, restarted>>

\* L111-112: correct = 0; break
check_password_wrong ==
    /\ pc = "L111"
    /\ correct' = 0
    /\ pc' = "L68"
    /\ UNCHANGED <<pressed, conversion_allowed, data_cnt, guess, seconds, locals, hw, probes>>

(************************ turn_on_led (main.c 65-90) ***********************)
\* turn_on_led with TA0CCTL0 |= CCIE moved to its first line: the timer interrupt
\* is enabled before the display is written
turn_on_led_switch_arm ==
    /\ pc = "L68"
    /\ TA0MC' = "up"
    /\ CCIE' = TRUE
    /\ sw' = correct
    /\ i' = 0
    /\ cmp_count' = 0
    /\ pc' = IF correct \in {0, 1} THEN "L71" ELSE "L171"
    /\ UNCHANGED <<globals, r_dat, ADC12MEM0, ADC12ENC, ADC12IE0, TA0CCR0, LED, lcd,
                   oob_write, accepted, latched, edge_gate, taken, ticks, restarted>>

\* L68-69: TA0CTL = TASSEL__ACLK | MC__UP; switch(correct)
turn_on_led_switch ==
    /\ pc = "L68"
    /\ TA0MC' = "up"
    /\ sw' = correct
    /\ i' = 0
    /\ cmp_count' = 0
    /\ pc' = IF correct \in {0, 1} THEN "L71" ELSE "L171"
    /\ UNCHANGED <<globals, r_dat, ADC12MEM0, ADC12ENC, ADC12IE0, TA0CCR0, CCIE, LED, lcd,
                   oob_write, accepted, latched, edge_gate, taken, ticks, restarted>>

\* L71 (case 0) or L81 (case 1): lcd_command(0x01)
turn_on_led_clear ==
    /\ pc = "L71"
    /\ lcd' = lcd_command(lcd, CLEAR_SCREEN)
    /\ pc' = "L72"
    /\ UNCHANGED <<globals, locals, adcregs, timerregs, LED, probes>>

\* L72: lcd_text("WRONG",0x85), or L82: lcd_text("UNLOCKED",0x84)
turn_on_led_text ==
    /\ pc = "L72"
    /\ lcd' = IF sw = 0 THEN lcd_text(lcd, TXT_WRONG, 133) ELSE lcd_text(lcd, TXT_UNLOCKED, 132)
    /\ pc' = IF sw = 0 THEN "L74" ELSE "L76"
    /\ UNCHANGED <<globals, locals, adcregs, timerregs, LED, probes>>

\* L73-74: __delay_cycles(1000); lcd_text("PASSWORD",0xC4)
turn_on_led_text2 ==
    /\ pc = "L74"
    /\ lcd' = lcd_text(lcd, TXT_PASSWORD, 196)
    /\ pc' = "L76"
    /\ UNCHANGED <<globals, locals, adcregs, timerregs, LED, probes>>

\* L76 or L84: TA0CCR0 = ONE_SECOND
turn_on_led_ccr0 ==
    /\ pc = "L76"
    /\ TA0CCR0' = ONE_SECOND
    /\ pc' = "L77"
    /\ UNCHANGED <<globals, locals, adcregs, TA0MC, CCIE, LED, lcd, probes>>

\* L77 or L85: TA0CCTL0 |= CCIE
turn_on_led_ccie ==
    /\ pc = "L77"
    /\ CCIE' = TRUE
    /\ ticks' = 0
    /\ pc' = "L78"
    /\ UNCHANGED <<globals, locals, adcregs, TA0CCR0, TA0MC, LED, lcd,
                   oob_write, accepted, latched, edge_gate, taken, cmp_count, restarted>>

\* L78: LED_PORT |= BIT4, or L86: LED_PORT |= BIT3; break; return
turn_on_led_led ==
    /\ pc = "L78"
    /\ LED' = IF sw = 0 THEN [LED EXCEPT !.b4 = TRUE] ELSE [LED EXCEPT !.b3 = TRUE]
    /\ sw' = 1
    /\ pc' = "L171"
    /\ UNCHANGED <<globals, i, r_dat, adcregs, timerregs, lcd, probes>>

(********************** interrupt service routines *************************)
\* values ADC12IV is read as: 6 is ADC12MEM0's interrupt, 2 stands for any other
ADC12IV_Values == {2, 6}

\* the handler storing the sampled digit itself: it writes guess[data_cnt] as
\* well as echoing it
ADC12ISR_store(raw, iv) ==
    /\ ADC12IE0
    /\ ADC12MEM0' = IF iv = 6 THEN raw ELSE ADC12MEM0
    /\ lcd' = IF iv = 6 /\ conversion_allowed # 0
              THEN lcd_display(lcd_command(lcd, 128 + data_cnt), HighNibble(raw) + ASCII_CONV)
              ELSE lcd
    /\ guess' = IF iv = 6 /\ conversion_allowed # 0 /\ data_cnt \in 0..3
                THEN [guess EXCEPT ![data_cnt] = HighNibble(raw)]
                ELSE guess
    /\ UNCHANGED <<pressed, conversion_allowed, data_cnt, correct, seconds, pc, locals,
                   ADC12ENC, ADC12IE0, timerregs, LED, probes>>

\* ADC12ISR (main.c 184-199), entered when a conversion has completed and ADC12IE0 is
\* set; conversions are triggered by TA0.0 and deliver raw into ADC12MEM0.
\* L197, LED_PORT ^= BIT5, toggles the diagnostic LED P4.5, which nothing in the
\* program reads and which shares no bit with P4.3/P4.4: it is not kept in LED.
ADC12ISR(raw, iv) ==
    /\ ADC12IE0
    /\ ADC12MEM0' = IF iv = 6 THEN raw ELSE ADC12MEM0
    /\ lcd' = IF iv = 6 /\ conversion_allowed # 0
              THEN lcd_display(lcd_command(lcd, 128 + data_cnt), HighNibble(raw) + ASCII_CONV)
              ELSE lcd
    /\ UNCHANGED <<globals, pc, locals, ADC12ENC, ADC12IE0, timerregs, LED, probes>>

\* the handler with the threshold off by one: if(seconds>3)
Timer_A_CCR0_ISR_late ==
    /\ CCIE
    /\ ticks = 0 \/ ~accepted
    /\ ticks' = IF ticks < MaxTicks THEN ticks + 1 ELSE MaxTicks
    /\ IF (seconds + 1) % 256 > 3
       THEN /\ LED' = IF correct # 0 THEN [LED EXCEPT !.b3 = FALSE] ELSE [LED EXCEPT !.b4 = FALSE]
            /\ CCIE' = FALSE
            /\ lcd' = lcd_begin(lcd_command(lcd, CLEAR_SCREEN))
            /\ correct' = 1
            /\ seconds' = 0
            /\ TA0CCR0' = HALF_HZ_CCR0
            /\ ADC12ENC' = TRUE
            /\ conversion_allowed' = 1
            /\ ADC12IE0' = TRUE
            /\ restarted' = TRUE
       ELSE /\ seconds' = (seconds + 1) % 256
            /\ UNCHANGED <<LED, CCIE, lcd, correct, TA0CCR0, ADC12ENC, conversion_allowed,
                           ADC12IE0, restarted>>
    /\ UNCHANGED <<pressed, data_cnt, guess, pc, locals, ADC12MEM0, TA0MC,
                   oob_write, accepted, latched, edge_gate, taken, cmp_count>>

\* the handler with conversion_allowed = 1 placed after the if: every run sets it
Timer_A_CCR0_ISR_early ==
    /\ CCIE
    /\ ticks = 0 \/ ~accepted
    /\ ticks' = IF ticks < MaxTicks THEN ticks + 1 ELSE MaxTicks
    /\ IF (seconds + 1) % 256 > 2
       THEN /\ LED' = IF correct # 0 THEN [LED EXCEPT !.b3 = FALSE] ELSE [LED EXCEPT !.b4 = FALSE]
            /\ CCIE' = FALSE
            /\ lcd' = lcd_begin(lcd_command(lcd, CLEAR_SCREEN))
            /\ correct' = 1
            /\ seconds' = 0
            /\ TA0CCR0' = HALF_HZ_CCR0
            /\ ADC12ENC' = TRUE
            /\ ADC12IE0' = TRUE
            /\ restarted' = TRUE
       ELSE /\ seconds' = (seconds + 1) % 256
            /\ UNCHANGED <<LED, CCIE, lcd, correct, TA0CCR0, ADC12ENC,
                           ADC12IE0, restarted>>
    /\ conversion_allowed' = 1
    /\ UNCHANGED <<pressed, data_cnt, guess, pc, locals, ADC12MEM0, TA0MC,
                   oob_write, accepted, latched, edge_gate, taken, cmp_count>>

\* the handler without conversion_allowed = 1: the window ends with the gate closed
Timer_A_CCR0_ISR_noreopen ==
    /\ CCIE
    /\ ticks = 0 \/ ~accepted
    /\ ticks' = IF ticks < MaxTicks THEN ticks + 1 ELSE MaxTicks
    /\ IF (seconds + 1) % 256 > 2
       THEN /\ LED' = IF correct # 0 THEN [LED EXCEPT !.b3 = FALSE] ELSE [LED EXCEPT !.b4 = FALSE]
            /\ CCIE' = FALSE
            /\ lcd' = lcd_begin(lcd_command(lcd, CLEAR_SCREEN))
            /\ correct' = 1
            /\ seconds' = 0
            /\ TA0CCR0' = HALF_HZ_CCR0
            /\ ADC12ENC' = TRUE
            /\ ADC12IE0' = TRUE
            /\ restarted' = TRUE
       ELSE /\ seconds' = (seconds + 1) % 256
            /\ UNCHANGED <<LED, CCIE, lcd, correct, TA0CCR0, ADC12ENC, ADC12IE0, restarted>>
    /\ UNCHANGED <<pressed, conversion_allowed, data_cnt, guess, pc, locals, ADC12MEM0, TA0MC,
                   oob_write, accepted, latched, edge_gate, taken, cmp_count>>

\* the handler clearing the guess when the window ends: guess[0..3] = 0
Timer_A_CCR0_ISR_clearguess ==
    /\ CCIE
    /\ ticks = 0 \/ ~accepted
    /\ ticks' = IF ticks < MaxTicks THEN ticks + 1 ELSE MaxTicks
    /\ IF (seconds + 1) % 256 > 2
       THEN /\ LED' = IF correct # 0 THEN [LED EXCEPT !.b3 = FALSE] ELSE [LED EXCEPT !.b4 = FALSE]
            /\ CCIE' = FALSE
            /\ lcd' = lcd_begin(lcd_command(lcd, CLEAR_SCREEN))
            /\ correct' = 1
            /\ seconds' = 0
            /\ TA0CCR0' = HALF_HZ_CCR0
            /\ ADC12ENC' = TRUE
            /\ conversion_allowed' = 1
            /\ ADC12IE0' = TRUE
            /\ restarted' = TRUE
            /\ guess' = [k \in 0..3 |-> 0]
       ELSE /\ seconds' = (seconds + 1) % 256
            /\ UNCHANGED <<LED, CCIE, lcd, correct, TA0CCR0, ADC12ENC, conversion_allowed,
                           ADC12IE0, restarted, guess>>
    /\ UNCHANGED <<pressed, data_cnt, pc, locals, ADC12MEM0, TA0MC,
                   oob_write, accepted, latched, edge_gate, taken, cmp_count>>

\* the handler turning off the right-answer LED only: LED_PORT &= ~BIT3 whatever
\* correct is
Timer_A_CCR0_ISR_bit3only ==
    /\ CCIE
    /\ ticks = 0 \/ ~accepted
    /\ ticks' = IF ticks < MaxTicks THEN ticks + 1 ELSE MaxTicks
    /\ IF (seconds + 1) % 256 > 2
       THEN /\ LED' = [LED EXCEPT !.b3 = FALSE]
            /\ CCIE' = FALSE
            /\ lcd' = lcd_begin(lcd_command(lcd, CLEAR_SCREEN))
            /\ correct' = 1
            /\ seconds' = 0
            /\ TA0CCR0' = HALF_HZ_CCR0
            /\ ADC12ENC' = TRUE
            /\ conversion_allowed' = 1
            /\ ADC12IE0' = TRUE
            /\ restarted' = TRUE
       ELSE /\ seconds' = (seconds + 1) % 256
            /\ UNCHANGED <<LED, CCIE, lcd, correct, TA0CCR0, ADC12ENC, conversion_allowed,
                           ADC12IE0, restarted>>
    /\ UNCHANGED <<pressed, data_cnt, guess, pc, locals, ADC12MEM0, TA0MC,
                   oob_write, accepted, latched, edge_gate, taken, cmp_count>>

\* Timer_A_CCR0_ISR (main.c 210-232), entered when CCIFG is raised and CCIE is set.
\* CCIFG may be pending from the 2 Hz mode when CCIE is set at L77/L85, so the first
\* run can follow at once; every later compare event is a timer period (1 s of
\* ACLK) after the one before, and the iteration that set CCIE has only L78/L86 and
\* L171 left, so it takes at most that one run.
Timer_A_CCR0_ISR ==
    /\ CCIE
    /\ ticks = 0 \/ ~accepted
    /\ ticks' = IF ticks < MaxTicks THEN ticks + 1 ELSE MaxTicks
    /\ IF (seconds + 1) % 256 > 2
       THEN /\ LED' = IF correct # 0 THEN [LED EXCEPT !.b3 = FALSE] ELSE [LED EXCEPT !.b4 = FALSE]
            /\ CCIE' = FALSE
            /\ lcd' = lcd_begin(lcd_command(lcd, CLEAR_SCREEN))
            /\ correct' = 1
            /\ seconds' = 0
            /\ TA0CCR0' = HALF_HZ_CCR0
            /\ ADC12ENC' = TRUE
            /\ conversion_allowed' = 1
            /\ ADC12IE0' = TRUE
            /\ restarted' = TRUE
       ELSE /\ seconds' = (seconds + 1) % 256
            /\ UNCHANGED <<LED, CCIE, lcd, correct, TA0CCR0, ADC12ENC, conversion_allowed,
                           ADC12IE0, restarted>>
    /\ UNCHANGED <<pressed, data_cnt, guess, pc, locals, ADC12MEM0, TA0MC,
                   oob_write, accepted, latched, edge_gate, taken, cmp_count>>

\* the button (P2.4) interrupt: latches the confirmation
PORT2_ISR ==
    /\ pressed' = 1
    /\ latched' = IF latched = "none" THEN "one" ELSE "several"
    /\ edge_gate' = IF pressed # 0 THEN edge_gate
                    ELSE IF conversion_allowed # 0 THEN "open" ELSE "closed"
    /\ UNCHANGED <<conversion_allowed, data_cnt, guess, correct, seconds, pc, locals, hw,
                   oob_write, accepted, taken, cmp_count, ticks, restarted>>

(***************************** specification *******************************)
MainStep ==
    \/ main_if_pressed
    \/ main_if_allowed
    \/ main_read_adc
    \/ main_store
    \/ main_incr
    \/ main_if_full
    \/ main_disable
    \/ check_password_hw
    \/ check_password_reset
    \/ check_password_loop
    \/ check_password_wrong
    \/ turn_on_led_switch
    \/ turn_on_led_clear
    \/ turn_on_led_text
    \/ turn_on_led_text2
    \/ turn_on_led_ccr0
    \/ turn_on_led_ccie
    \/ turn_on_led_led
    \/ main_clear_pressed

Init == InitWith(Samples)

Next ==
    \/ MainStep
    \/ \E raw \in Samples, iv \in ADC12IV_Values : ADC12ISR(raw, iv)
    \/ Timer_A_CCR0_ISR
    \/ PORT2_ISR

Spec == Init /\ [][Next]_vars

\* the same program with the potentiometer kept near the top of its range
InitHigh == InitWith(HighSamples)

NextHigh ==
    \/ MainStep
    \/ \E raw \in HighSamples, iv \in ADC12IV_Values : ADC12ISR(raw, iv)
    \/ Timer_A_CCR0_ISR
    \/ PORT2_ISR

SpecHigh == InitHigh /\ [][NextHigh]_vars

\* the program under its scheduling: the CPU executes the main loop whenever no
\* handler runs, and the timer hardware raises CCIFG every period while it counts
InitFair == InitWith(LiveSamples)

NextFair ==
    \/ MainStep
    \/ \E raw \in LiveSamples, iv \in ADC12IV_Values : ADC12ISR(raw, iv)
    \/ Timer_A_CCR0_ISR
    \/ PORT2_ISR

SpecFair == InitFair /\ [][NextFair]_vars /\ WF_vars(MainStep) /\ WF_vars(Timer_A_CCR0_ISR)

(************************* the specification's terms ***********************)
\* AcceptingFlag is conversion_allowed, DigitIndex is data_cnt, ConfirmFlag is
\* pressed, ElapsedTicks is seconds, Guess is guess, Secret is password
AcceptingFlag == conversion_allowed # 0

\* tick delivery to Timer_A_CCR0_ISR is enabled
Armed == CCIE

\* FeedbackState: correct = 0 records Failure; correct = 1 is Success while the
\* feedback timer is armed and Idle otherwise
FeedbackState ==
    IF correct = 0 THEN "Failure" ELSE IF Armed THEN "Success" ELSE "Idle"

GuessMatches == \A k \in 0..3 : guess[k] = password[k]

\* positions of the main loop between the end of check_password's loop and
\* the statement that enables CCIE
Validated == {"L68", "L71", "L72", "L74", "L76", "L77"}

\* positions of the main loop inside check_password and turn_on_led
InValidation == {"L102", "L108", "L109", "L111", "L68", "L71", "L72", "L74", "L76", "L77", "L78"}

\* a step of the main loop other than an idle poll or a loop iteration
MainMoves == pc' # pc

(********************************* C1 **************************************)
\* C1: in every entry cycle, the validation run on the 4th accepted
\* confirmation yields Success (correct stays 1, the branch of turn_on_led is
\* case 1, FeedbackState is Success while armed) if and only if guess[k] =
\* password[k] for all k in 0..3, and Failure (correct = 0, case 0) otherwise.
C1_ValidationResult ==
    /\ correct \in {0, 1}
    /\ pc \in Validated => ((correct = 1) <=> GuessMatches)
    /\ pc \in {"L71", "L72", "L74", "L76", "L77", "L78"} => ((sw = 1) <=> GuessMatches)
    /\ Armed => /\ (FeedbackState = "Success") <=> GuessMatches
                /\ (FeedbackState = "Failure") <=> ~GuessMatches

\* a Success in a cycle after the first: the window of an earlier cycle has ended
C1_Witness ==
    /\ restarted
    /\ Armed
    /\ GuessMatches
    /\ FeedbackState = "Success"

(********************************* C2 **************************************)
\* the smallest index at which guess and password differ, 4 when there is none
FirstMismatch ==
    IF GuessMatches THEN 4
    ELSE CHOOSE k \in 0..3 : /\ guess[k] # password[k]
                             /\ \A j \in 0..(k - 1) : guess[j] = password[j]

\* C2: check_password compares guess[i] with password[i] in increasing index
\* order and stops at the first mismatch: the comparison about to be made is at
\* the index equal to the number of comparisons already made, every index
\* before it matched, and when the loop is left the number of comparisons is
\* k+1 for the smallest mismatching index k and 4 when there is no mismatch.
C2_ShortCircuit ==
    /\ pc = "L109" => /\ i = cmp_count
                      /\ i <= 4
                      /\ \A j \in 0..(i - 1) : guess[j] = password[j]
    /\ pc = "L111" => /\ cmp_count = i + 1
                      /\ i = FirstMismatch
    /\ pc = "L68" => cmp_count = IF GuessMatches THEN 4 ELSE FirstMismatch + 1

\* guess 1,2,4,4 against password 1,2,3,4: the loop is left after 3 comparisons
C2_Witness ==
    /\ pc = "L68"
    /\ guess = (0 :> 1 @@ 1 :> 2 @@ 2 :> 4 @@ 3 :> 4)
    /\ cmp_count = 3
    /\ correct = 0

(********************************* C3 **************************************)
\* the quantized digit of a 4-bit value: values above 9 are clamped to 9
QuantizedDigit(n) == IF n > 9 THEN 9 ELSE n

\* C3: the digit committed into a guess slot is the quantized digit of the raw
\* sample (n for n in 0..9, 9 for n in 10..15), so every guess slot holds a
\* value in 0..9.
C3_CommittedDigitIsQuantized ==
    \A k \in 0..3 : guess[k] = QuantizedDigit(guess[k]) /\ guess[k] \in 0..9

(********************************* C4 **************************************)
\* C4: a confirmation consumed while conversion_allowed is set goes through the
\* store and the increment; the store writes exactly guess[data_cnt] (data_cnt
\* in 0..3) and leaves the other slots and data_cnt alone, the increment adds
\* exactly 1 to data_cnt and leaves guess alone, and no other step changes
\* guess or raises data_cnt; so the slots of a cycle are written in the order
\* 0, 1, 2, 3.
C4_CommitStep ==
    [][ /\ (pc = "L162" /\ MainMoves /\ conversion_allowed # 0) => pc' = "L163"
        /\ (pc = "L163" /\ MainMoves) => pc' = "L163s"
        /\ (pc = "L163s" /\ MainMoves) =>
                /\ pc' = "L164"
                /\ data_cnt \in 0..3
                /\ guess'[data_cnt] = r_dat
                /\ \A k \in 0..3 : k # data_cnt => guess'[k] = guess[k]
                /\ data_cnt' = data_cnt
                /\ ~oob_write'
        /\ (pc = "L164" /\ MainMoves) =>
                /\ pc' = "L167"
                /\ data_cnt' = data_cnt + 1
                /\ guess' = guess
        /\ guess' # guess => pc = "L163s"
        /\ data_cnt' # data_cnt => (pc = "L164" \/ (pc = "L108" /\ data_cnt' = 0))
      ]_vars

\* the 4th digit of a cycle has just been committed: slots 0..3 hold 1,2,3,4
C4_Witness ==
    /\ pc = "L167"
    /\ accepted
    /\ data_cnt = 4
    /\ guess = (0 :> 1 @@ 1 :> 2 @@ 2 :> 3 @@ 3 :> 4)

(********************************* C5 **************************************)
\* C5: a main-loop iteration that consumes a pending confirmation while
\* conversion_allowed is 0 goes from L162 straight to L167 and from there to
\* L171; it leaves guess and data_cnt unchanged, does not enter check_password
\* or turn_on_led (correct, CCIE, TA0CCR0, LED and lcd keep their values under
\* its steps), and ends by clearing pressed.
C5_DiscardedConfirmation ==
    [][ /\ (pc = "L162" /\ MainMoves /\ conversion_allowed = 0) =>
                /\ pc' = "L167"
                /\ ~accepted'
                /\ guess' = guess /\ data_cnt' = data_cnt
        /\ (pc = "L167" /\ MainMoves /\ ~accepted) =>
                /\ pc' = "L171"
                /\ guess' = guess /\ data_cnt' = data_cnt
                /\ UNCHANGED <<correct, CCIE, TA0CCR0, TA0MC, LED, lcd, seconds>>
        /\ (pc = "L171" /\ MainMoves /\ ~accepted) =>
                /\ pc' = "L161"
                /\ pressed' = 0
                /\ guess' = guess /\ data_cnt' = data_cnt
                /\ UNCHANGED <<correct, CCIE, TA0CCR0, TA0MC, LED, lcd, seconds>>
      ]_vars

\* a confirmation is being discarded inside a feedback window
C5_Witness ==
    /\ pc = "L171"
    /\ ~accepted
    /\ pressed = 1
    /\ ~AcceptingFlag
    /\ Armed

(********************************* C6 **************************************)
\* C6: the iteration that commits the 4th digit goes on to clear
\* conversion_allowed before it validates; conversion_allowed is 0 in every
\* state in which the main loop is inside check_password or turn_on_led or the
\* feedback timer is armed; and the only step that sets it again is the run of
\* Timer_A_CCR0_ISR that ends the window (seconds = 2 before it, the 3rd run
\* since arming).
C6_GateClosedUntilThreshold ==
    /\ []((pc \in InValidation \/ Armed) => ~AcceptingFlag)
    /\ [][ /\ (pc = "L167" /\ MainMoves /\ data_cnt > 3) => pc' = "L168"
           /\ (pc = "L168" /\ MainMoves) => (pc' = "L102" /\ ~AcceptingFlag')
           /\ (~AcceptingFlag /\ AcceptingFlag') =>
                  (Armed /\ ~Armed' /\ seconds = 2 /\ ticks' = 3)
         ]_vars

\* two ticks into a feedback window, the gate is still closed
C6_Witness ==
    /\ Armed
    /\ ticks = 2
    /\ ~AcceptingFlag
    /\ pc = "L161"

(********************************* C7 **************************************)
\* C7: seconds is 0 whenever the timer is not armed, in particular when CCIE
\* is set; while armed seconds equals the number of handler runs since arming
\* and is at most 2; the 1st and 2nd run only increment seconds; the run that
\* disarms is the 3rd one and leaves seconds = 0 and CCIE clear.
C7_WindowIsThreeTicks ==
    /\ [](~Armed => seconds = 0)
    /\ [](Armed => (seconds = ticks /\ ticks <= 2))
    /\ [][ /\ (~Armed /\ Armed') => (pc = "L77" /\ seconds' = 0 /\ ticks' = 0)
           /\ (Armed /\ Armed' /\ ticks' # ticks) =>
                  /\ seconds' = seconds + 1
                  /\ UNCHANGED <<pressed, conversion_allowed, data_cnt, guess, correct, pc,
                                 locals, adcregs, TA0CCR0, TA0MC, LED, lcd>>
           /\ (Armed /\ ~Armed') => (ticks = 2 /\ ticks' = 3 /\ seconds' = 0)
         ]_vars

\* the second tick of a window of a later cycle
C7_Witness ==
    /\ restarted
    /\ Armed
    /\ ticks = 2
    /\ seconds = 2

C9_OnePendingConfirmation ==
    /\ [](pressed \in {0, 1} /\ ((pressed = 1) <=> (latched # "none")))
    /\ [][ /\ (pc = "L161" /\ MainMoves) => (pressed = 1 /\ taken' = latched)
           /\ data_cnt' > data_cnt => data_cnt' = data_cnt + 1
           /\ (pc = "L171" /\ MainMoves) => (pc' = "L161" /\ pressed' = 0)
         ]_vars

\* first iteration of a run: it found several edges latched and has committed
\* exactly one digit
C9_Witness ==
    /\ ~restarted
    /\ taken = "several"
    /\ pc = "L167"
    /\ accepted
    /\ data_cnt = 1

(********************************* C10 *************************************)
\* C10: in every reachable state FeedbackState # Idle (correct = 0, or the
\* feedback timer armed) implies conversion_allowed = 0.
C10_FeedbackImpliesGateClosed ==
    FeedbackState # "Idle" => ~AcceptingFlag

\* Timer_A_CCR0_ISR has run between L77 and L78 of a failed validation
C10_Witness ==
    /\ pc = "L78"
    /\ ticks = 1
    /\ FeedbackState = "Failure"
    /\ ~AcceptingFlag

(********************************* C11 *************************************)
\* C11: in every reachable state data_cnt is in 0..4, and no store into guess
\* has used an index outside 0..3: whenever the main loop is about to store
\* (L163, L163s) data_cnt is in 0..3, whatever handlers ran in between.
C11_DigitIndexInRange ==
    /\ data_cnt \in 0..4
    /\ ~oob_write
    /\ pc \in {"L163", "L163s"} => data_cnt \in 0..3
    /\ data_cnt = 4 => pc \in {"L167", "L168", "L102", "L108"}

\* the 4th digit is committed, a conversion has been echoed after it and
\* further button edges are pending: data_cnt is 4 and the gate is not yet closed
C11_Witness ==
    /\ data_cnt = 4
    /\ pc = "L168"
    /\ latched = "several"
    /\ AcceptingFlag
    /\ lcd.cursor = 5

(********************************* C12 *************************************)
\* C12: under fair scheduling of the main loop and fair delivery of timer
\* interrupts, every state in which the 4th digit of a cycle has been committed
\* (data_cnt = 4) is eventually followed by a state in which conversion_allowed
\* is set, data_cnt is 0, the feedback timer is disarmed and the ADC12 interrupt
\* is enabled again, so that a further confirmation is accepted.
C12_CycleRestarts ==
    (data_cnt = 4) ~> (AcceptingFlag /\ data_cnt = 0 /\ ~Armed /\ ADC12IE0 /\ ADC12ENC)

\* a confirmation has been accepted and stored in a cycle after the first
C12_Witness ==
    /\ restarted
    /\ accepted
    /\ pc = "L164"
    /\ data_cnt = 0
    /\ AcceptingFlag

(********************************* C13 *************************************)
\* C13: a button edge that sets pressed while conversion_allowed is 0 never
\* results in a committed digit: no iteration whose pending confirmation was
\* latched with the gate closed takes the conversion_allowed branch and
\* stores into guess, neither inside the window nor after it has ended.
C13_ClosedGateEdgeNeverCommitted ==
    (accepted \/ pc \in {"L163", "L163s", "L164"}) => edge_gate # "closed"

(********************************* C14 *************************************)
\* C14: the iteration that finds pressed = 1 clears it at once, before the
\* store into guess and before check_password and turn_on_led run; so an edge
\* latched later in the same iteration (the iteration found one edge, a second
\* one arrived before its end) leaves pressed = 1 for the next poll.
C14_ClearedBeforeCopy ==
    [][ /\ (pc = "L161" /\ MainMoves) => pressed' = 0
        /\ (pc = "L171" /\ MainMoves /\ taken = "one" /\ latched = "several") => pressed' = 1
      ]_vars

(********************************* C15 *************************************)
\* C15: whenever ADC12ISR echoes a digit to the display (ADC12IV = 6 and
\* conversion_allowed set), data_cnt is in 0..3, so the cursor address it sends
\* is one of 0x80..0x83 and the address counter is left at 1..4.
C15_EchoSlotInRange ==
    [][ (conversion_allowed # 0 /\ \E raw \in Samples : ADC12ISR(raw, 6)) =>
            /\ data_cnt \in 0..3
            /\ lcd'.cursor \in 1..4
      ]_vars

(********************************* C16 *************************************)
\* C16: every run of ADC12ISR, with conversion_allowed set or clear and with
\* any value of ADC12IV, leaves data_cnt, pressed, correct and CCIE (hence
\* FeedbackState), guess, conversion_allowed and seconds unchanged, and the main
\* loop's position and locals, the timer registers, the ADC enables and the
\* indicator LEDs as well; it changes the display only when conversion_allowed
\* is set and ADC12IV is 6.
C16_SamplerFrame ==
    [][ /\ pc' # pc => MainStep
        /\ \/ pc' # pc
           \/ /\ UNCHANGED <<data_cnt, pressed, correct, CCIE, guess, conversion_allowed, seconds,
                            i, sw, r_dat, TA0CCR0, TA0MC, ADC12ENC, ADC12IE0, LED>>
              /\ conversion_allowed = 0 => lcd' = lcd
           \/ ~(\E raw \in Samples, iv \in ADC12IV_Values : ADC12ISR(raw, iv))
        /\ \/ lcd' = lcd
           \/ ~(\E raw \in Samples, iv \in ADC12IV_Values \ {6} : ADC12ISR(raw, iv))
      ]_vars

\* the handler has run with the gate closed, between L168 and the disabling of
\* its interrupt: the conversion result is newer than the 4th digit stored and
\* the display still shows the digit echoed before the gate closed
C16_Witness ==
    /\ pc = "L102"
    /\ ~AcceptingFlag
    /\ data_cnt = 4
    /\ HighNibble(ADC12MEM0) # guess[3]
    /\ lcd.last = guess[3] + ASCII_CONV
    /\ lcd.cursor = 4

(********************************* C17 *************************************)
\* C17 as stated: each of guess, data_cnt, pressed, conversion_allowed, correct
\* and seconds is written by one context only.  guess and data_cnt change only
\* under steps of the main loop and seconds only under the timer handler; and
\* a cell a handler has written is not written by the main loop: the main loop
\* does not change conversion_allowed or correct once the timer handler has set
\* them (restarted), nor pressed when the button handler has set it (latched).
C17_SingleWriter ==
    [][ /\ guess' # guess => MainStep
        /\ data_cnt' # data_cnt => MainStep
        /\ seconds' # seconds => Timer_A_CCR0_ISR
        /\ (conversion_allowed' # conversion_allowed /\ MainStep) => ~restarted
        /\ (correct' # correct /\ MainStep) => ~restarted
        /\ (pressed' # pressed /\ MainStep) => latched = "none"
      ]_vars

\* C17 amended: guess and data_cnt are written only by the main loop and
\* seconds only by the timer handler; pressed, conversion_allowed and correct
\* (with CCIE, the other half of FeedbackState) have two writers each: pressed
\* is set by the button handler and cleared by the main loop at L171,
\* conversion_allowed is cleared by the main loop at L168 and set by the timer
\* handler, correct is cleared by check_password at L111 and set by the timer
\* handler, CCIE is set by turn_on_led and cleared by the timer handler.
C17_WritersPerCell ==
    [][ /\ guess' # guess => MainStep
        /\ data_cnt' # data_cnt => MainStep
        /\ seconds' # seconds => Timer_A_CCR0_ISR
        /\ pressed' # pressed =>
              IF pressed' = 0 THEN main_clear_pressed ELSE PORT2_ISR
        /\ conversion_allowed' # conversion_allowed =>
              IF conversion_allowed' = 0 THEN main_disable ELSE Timer_A_CCR0_ISR
        /\ correct' # correct =>
              IF correct' = 0 THEN check_password_wrong ELSE Timer_A_CCR0_ISR
        /\ CCIE' # CCIE =>
              IF CCIE' THEN turn_on_led_ccie ELSE Timer_A_CCR0_ISR
      ]_vars

\* a later cycle: the timer handler has set conversion_allowed and correct when
\* the last window ended, and the main loop has cleared both again
C17_Witness ==
    /\ restarted
    /\ pc = "L68"
    /\ conversion_allowed = 0
    /\ correct = 0
    /\ pressed = 1
    /\ ~Armed

WindowPositions == {"L78", "L171", "L161", "L162", "L167"}

\* C19: while the feedback timer is armed the main loop is never inside
\* check_password or before L78 in turn_on_led and data_cnt is 0; no step taken
\* while armed enters them, sets CCIE or TA0CCR0 again, changes correct, or
\* lowers seconds or the count of handler runs, until the handler run that
\* ends the window.
C19_ValidatedOncePerCycle ==
    /\ [](Armed => (pc \in WindowPositions /\ data_cnt = 0 /\ TA0CCR0 = ONE_SECOND))
    /\ [][ (Armed /\ Armed') =>
               /\ pc' \in WindowPositions
               /\ (pc = "L167" /\ MainMoves) => pc' = "L171"
               /\ seconds' >= seconds
               /\ ticks' >= ticks
               /\ UNCHANGED <<TA0CCR0, TA0MC, correct, data_cnt, guess, conversion_allowed>>
         ]_vars

\* an iteration inside the window, two handler runs after arming, has found
\* several edges pending and is passing L167 without validating
C19_Witness ==
    /\ Armed
    /\ ticks = 2
    /\ pc = "L167"
    /\ taken = "several"
    /\ ~accepted
    /\ edge_gate = "closed"

(********************************* C20 *************************************)
\* positions of the main loop from the clear-screen command of turn_on_led to
\* its last lcd_text call
DisplaySeq == {"L71", "L72", "L74"}

\* C20: while the main loop is inside the display writes of turn_on_led the
\* echo of ADC12ISR cannot run (its interrupt is disabled or conversion_allowed
\* is 0) and Timer_A_CCR0_ISR cannot run (CCIE is clear); every change of the
\* display made from such a state is made by a display statement of
\* turn_on_led, and the main loop writes the display nowhere else.
C20_NoDisplayInterleaving ==
    /\ [](pc \in DisplaySeq => (~(ADC12IE0 /\ AcceptingFlag) /\ ~CCIE))
    /\ [][ /\ (pc \in DisplaySeq /\ lcd' # lcd) =>
                  (turn_on_led_clear \/ turn_on_led_text \/ turn_on_led_text2)
           /\ (MainStep /\ lcd' # lcd) => pc \in DisplaySeq
           /\ (pc \in DisplaySeq /\ MainStep) => pc' \in (DisplaySeq \cup {"L76"})
         ]_vars

\* "WRONG" has been written and "PASSWORD" is still to come, with a button edge
\* latched meanwhile
C20_Witness ==
    /\ pc = "L74"
    /\ sw = 0
    /\ lcd = [cursor |-> 10, last |-> 71]
    /\ pressed = 1
    /\ ~ADC12IE0

====
